---- MODULE Spec2Model ----
(***************************************************************************)
(* Pipeline-run graph construction and matrix-task expansion of            *)
(* konflux-ui: the sanitizers, the matrix detector, the instance labeler,  *)
(* the task list builder (appendStatus), the graph model builder           *)
(* (getPipelineRunDataModel) and the label lookup (getTaskDisplayInfo).    *)
(*                                                                         *)
(* Strings are sequences of one-character strings, so that the sanitizers  *)
(* act on characters as the regular expressions of the code do.  The       *)
(* JavaScript value `undefined` is the one-element sequence Undef, whose   *)
(* element is no character.                                                *)
(***************************************************************************)
EXTENDS Integers, Sequences, FiniteSets, TLC

VARIABLES
    pc,          \* position of the running call
    pipeline,    \* the pipeline object: isNull, or its spec.tasks and spec.finally
    pipelineRun, \* the pipeline-run object
    taskRuns,    \* the task-run list: isNull, or its records
    taskList,    \* what appendStatus returned
    model,       \* what getPipelineRunDataModel built
    text,        \* argument of a sanitizer call
    ret,         \* results of the pure-function calls made so far
    matrixDetectionCache, \* the memoization Map of the detector, in insertion order
    detections,  \* number of result objects the caching wrapper has computed
    now,         \* what Date.now() returns
    query,       \* what the paged task-run query reports to useTaskRuns
    hasTriggeredFetch, \* the ref of useTaskRuns
    activeItem,  \* state.activeItem of PipelineRunLogs: a run name, or none
    navUntouched, \* state.navUntouched of PipelineRunLogs
    location,    \* the task and index parameters of the page address
    stepCall,    \* the arguments of a createStepStatus call
    effects      \* the effects of useTaskRuns that are due after the last render

cacheVars == <<matrixDetectionCache, detections, now>>

hookVars == <<query, hasTriggeredFetch, effects>>

logVars == <<activeItem, navUntouched, location>>

stepVars == <<stepCall>>

vars == <<pc, pipeline, pipelineRun, taskRuns, taskList, model, text, ret,
          matrixDetectionCache, detections, now, query, hasTriggeredFetch, effects,
          activeItem, navUntouched, location, stepCall>>

NoTask == [task |-> <<"undefined">>, index |-> <<"undefined">>]

\* PipelineRunLogs as constructed, on a page address without parameters
NoLogs ==
    /\ activeItem = <<>>
    /\ navUntouched = TRUE
    /\ location = NoTask

\* the cache and the hook while neither is in use
NoCacheNoHook ==
    /\ matrixDetectionCache = <<>>
    /\ detections = 0
    /\ query = [loaded |-> FALSE, pages |-> 0, total |-> 0, isFetchingNextPage |-> FALSE]
    /\ hasTriggeredFetch = FALSE
    /\ effects = {}
    /\ now = 0
    /\ NoLogs
    /\ stepCall = <<>>

----------------------------------------------------------------------------
(* Strings *)

Undef == <<"undefined">>

Lower == {"a","b","c","d","e","f","g","h","i","j","k","l","m",
          "n","o","p","q","r","s","t","u","v","w","x","y","z"}
Upper == {"A","B","C","D","E","F","G","H","I","J","K","L","M",
          "N","O","P","Q","R","S","T","U","V","W","X","Y","Z"}
Digits == <<"0","1","2","3","4","5","6","7","8","9">>
DigitSet == {Digits[i] : i \in 1..10}

IsAlnum(c) == c \in Lower \cup Upper \cup DigitSet

IsSpace(c) == c = " "

\* a falsy string: undefined or ''
Falsy(s) == s = Undef \/ s = <<>>

RECURSIVE NumToStr(_)
NumToStr(n) ==
    IF n < 10 THEN <<Digits[n + 1]>>
    ELSE NumToStr(n \div 10) \o <<Digits[(n % 10) + 1]>>

RECURSIVE Join(_, _)
Join(parts, sep) ==
    IF parts = <<>> THEN <<>>
    ELSE IF Len(parts) = 1 THEN parts[1]
    ELSE parts[1] \o sep \o Join(Tail(parts), sep)

RECURSIVE Flatten(_)
Flatten(ss) == IF ss = <<>> THEN <<>> ELSE Head(ss) \o Flatten(Tail(ss))

Range(s) == {s[i] : i \in 1..Len(s)}

----------------------------------------------------------------------------
(* 4.1 Sanitizers *)

MaxDisplayLen == 100

\* position p lies in a match of /<[^>]*>/g: a '<' at or before p with no '>'
\* between it and p, and a '>' at or after p that closes it
InTag(s, p) ==
    \E i \in 1..p :
        /\ s[i] = "<"
        /\ \A m \in (i + 1)..(p - 1) : s[m] # ">"
        /\ \E j \in (IF p > i THEN p ELSE i + 1)..Len(s) : s[j] = ">"

\* .replace(/<[^>]*>/g, ''): from each '<' up to the first '>' after it
RemoveTags(s) ==
    LET at == SelectSeq([i \in 1..Len(s) |-> i], LAMBDA p : ~InTag(s, p))
    IN [k \in 1..Len(at) |-> s[at[k]]]

\* .replace(/[<>&]/g, '')
RemoveDangerous(s) == SelectSeq(s, LAMBDA c : c \notin {"<", ">", "&"})

\* .trim()
Trim(s) ==
    LET solid == {i \in 1..Len(s) : ~IsSpace(s[i])}
    IN IF solid = {} THEN <<>>
       ELSE SubSeq(s, CHOOSE i \in solid : \A j \in solid : i <= j,
                      CHOOSE i \in solid : \A j \in solid : i >= j)

sanitizeDisplayName(displayName) ==
    IF Falsy(displayName) THEN <<>>
    ELSE LET sanitized == Trim(RemoveDangerous(RemoveTags(displayName)))
         IN IF Len(sanitized) > MaxDisplayLen
            THEN SubSeq(sanitized, 1, MaxDisplayLen) ELSE sanitized

\* .replace(/-+/g, '-')
RECURSIVE CollapseDashes(_)
CollapseDashes(s) ==
    IF Len(s) < 2 THEN s
    ELSE IF s[1] = "-" /\ s[2] = "-" THEN CollapseDashes(Tail(s))
    ELSE <<Head(s)>> \o CollapseDashes(Tail(s))

\* .replace(/^-|-$/g, ''): one dash at the start and one at the end
StripDashes(s) ==
    LET a == IF s # <<>> /\ Head(s) = "-" THEN Tail(s) ELSE s
    IN IF a # <<>> /\ a[Len(a)] = "-" THEN SubSeq(a, 1, Len(a) - 1) ELSE a

DashNonAlnum(s) == [i \in 1..Len(s) |-> IF IsAlnum(s[i]) THEN s[i] ELSE "-"]

sanitizeNameSuffixNoCollapse(input) ==
    IF Falsy(input) THEN <<>> ELSE StripDashes(DashNonAlnum(input))

sanitizeNameSuffix(input) ==
    IF Falsy(input) THEN <<>>
    ELSE StripDashes(CollapseDashes(DashNonAlnum(input)))

----------------------------------------------------------------------------
(* 4.3 Instance Labeler *)

\* what Array.prototype.find returns, given the elements that satisfy its test
\* in order: the first of them, as a sequence of at most one element
First(hits) == IF hits = <<>> THEN <<>> ELSE <<hits[1]>>

getDisplayNameFromChildReferencesRaw(pRun, taskRunName) ==
    IF ~pRun.hasStatus \/ ~pRun.hasChildReferences THEN Undef
    ELSE LET childRef == First(SelectSeq(pRun.childReferences, LAMBDA r : r.name = taskRunName))
         IN IF childRef = <<>> \/ Falsy(childRef[1].displayName) THEN Undef
            ELSE childRef[1].displayName

getDisplayNameFromChildReferences(pRun, taskRunName) ==
    IF ~pRun.hasStatus \/ ~pRun.hasChildReferences THEN Undef
    ELSE LET childRef == First(SelectSeq(pRun.childReferences, LAMBDA r : r.name = taskRunName))
         IN IF childRef = <<>> \/ Falsy(childRef[1].displayName) THEN Undef
            ELSE sanitizeDisplayName(childRef[1].displayName)

\* Array.isArray(param.value) ? param.value : [param.value]
ParamValues(param) == IF param.isArray THEN param.value ELSE <<param.value>>

RECURSIVE TotalCombinations(_)
TotalCombinations(matrixParams) ==
    IF matrixParams = <<>> THEN 1
    ELSE Len(ParamValues(Head(matrixParams))) * TotalCombinations(Tail(matrixParams))

\* the combination at position remainingIndex, first parameter fastest-varying
RECURSIVE Combination(_, _)
Combination(matrixParams, remainingIndex) ==
    IF matrixParams = <<>> THEN <<>>
    ELSE LET values == ParamValues(Head(matrixParams))
         IN <<values[(remainingIndex % Len(values)) + 1]>>
            \o Combination(Tail(matrixParams), remainingIndex \div Len(values))

InstanceN(index) == <<"I","n","s","t","a","n","c","e"," ">> \o NumToStr(index + 1)

CommaSpace == <<",", " ">>

createMatrixInstanceLabelGeneric(task, taskRun, pRun, index) == InstanceN(index)

createMatrixInstanceLabel(task, taskRun, pRun, index) ==
    LET taskRunName == taskRun.name
        childRefDisplayName ==
            IF Falsy(taskRunName) THEN Undef
            ELSE getDisplayNameFromChildReferences(pRun, taskRunName)
        matrixParams == task.matrix
        matrixParamNames == {matrixParams[i].name : i \in 1..Len(matrixParams)}
        live == SelectSeq(taskRun.params, LAMBDA q : q.name \in matrixParamNames)
        matrixParamValues == [i \in 1..Len(live) |-> live[i].value]
        single == ParamValues(matrixParams[1])
        totalCombinations == TotalCombinations(matrixParams)
        paramValues ==
            IF index < totalCombinations
            THEN Combination(matrixParams, index) ELSE <<>>
    IN IF ~Falsy(childRefDisplayName) THEN childRefDisplayName
       ELSE IF Len(matrixParams) > 0
       THEN IF Len(matrixParams) = 1 /\ index < Len(single)
            THEN single[index + 1]
            ELSE IF index < totalCombinations /\ Len(matrixParamValues) > 0
            THEN Join(matrixParamValues, CommaSpace)
            ELSE IF Len(paramValues) < 4
            THEN Join(paramValues, CommaSpace)
            ELSE InstanceN(index)
       ELSE InstanceN(index)

----------------------------------------------------------------------------
(* Records of the data model *)

\* params: the parameter values of the task, each the sequence of the task names
\* its `$(tasks.<name>.results...)` expressions name, in order of appearance
\* and when: the strings of its when-expressions, modelled the same way
Task(name, runAfter, params, matrix) ==
    [name |-> name, runAfter |-> runAfter, params |-> params, when |-> <<>>,
     matrix |-> matrix]

\* label: metadata.labels['tekton.dev/pipelineTask'] (Undef when absent);
\* reason: what the run-state classifier makes of status.conditions
TaskRun(name, label, pipelineTaskName, annotations, params) ==
    [name |-> name, hasLabels |-> TRUE, label |-> label,
     pipelineTaskName |-> pipelineTaskName,
     annotations |-> annotations, params |-> params, reason |-> "Succeeded"]

Annotation(key, value) == [key |-> key, value |-> value]

ChildRef(name, displayName) == [name |-> name, displayName |-> displayName]

PipelineRun(childRefs, skipped) ==
    [hasStatus |-> TRUE, hasSpec |-> TRUE, hasChildReferences |-> TRUE,
     childReferences |-> childRefs, skippedTasks |-> skipped, reason |-> "Running"]

PipelineRunNoRefs ==
    [hasStatus |-> TRUE, hasSpec |-> TRUE, hasChildReferences |-> FALSE,
     childReferences |-> <<>>, skippedTasks |-> {}, reason |-> "Running"]

NoPipelineRun ==
    [hasStatus |-> FALSE, hasSpec |-> FALSE, hasChildReferences |-> FALSE,
     childReferences |-> <<>>, skippedTasks |-> {}, reason |-> "Pending"]

Pipeline(tasks) == [isNull |-> FALSE, tasks |-> tasks, finally |-> <<>>]

NullPipeline == [isNull |-> TRUE, tasks |-> <<>>, finally |-> <<>>]

TaskRuns(items) == [isNull |-> FALSE, items |-> items]

NullTaskRuns == [isNull |-> TRUE, items |-> <<>>]

----------------------------------------------------------------------------
(* 4.2 Matrix Detector *)

\* The annotation keys of the model, and how the code's tests on a key come out
\* for each: 'tekton.dev/...' keys are skipped; 'SCAN_TYPE' contains SCAN and
\* TYPE; the target-platform key is in KNOWN_MATRIX_PARAMETERS; 'description' is
\* lower case and has none of the marker words.
AnnotationKeys ==
    {"tekton.dev/pipelineTask", "SCAN_TYPE",
     "build.appstudio.redhat.com/target-platform", "description"}

SkippedAnnotationKey(key) == key \in {"tekton.dev/pipelineTask"}

IsKnownParameter(key) == key \in {"build.appstudio.redhat.com/target-platform"}

IsLikelyMatrix(key) ==
    \/ key \in {"SCAN_TYPE", "build.appstudio.redhat.com/target-platform"}
    \/ IsKnownParameter(key)

\* the annotations of the record that are taken for matrix parameters
detectMatrixParametersFromTaskRun(taskRun) ==
    SelectSeq(taskRun.annotations,
              LAMBDA an : /\ ~SkippedAnnotationKey(an.key)
                          /\ ~Falsy(an.value)
                          /\ IsLikelyMatrix(an.key))

\* the records whose pipeline-task label is taskName
RunsLabelled(items, taskName) ==
    SelectSeq(items, LAMBDA tr : tr.hasLabels /\ tr.label = taskName)

IsMatrixDetected(taskRunList) ==
    LET instanceCount == Len(taskRunList)
        hasMatrixParameters ==
            \E i \in 1..Len(taskRunList) :
                Len(detectMatrixParametersFromTaskRun(taskRunList[i])) > 0
    IN instanceCount > 1 \/ hasMatrixParameters

\* the Map the detector returns, as a function on the task names it has keys for
detectMatrixTasks(runs) ==
    LET items == IF runs.isNull THEN <<>> ELSE runs.items
        names == {items[i].label : i \in {j \in 1..Len(items) :
                      items[j].hasLabels /\ ~Falsy(items[j].label)}}
    IN [taskName \in names |->
           [taskName |-> taskName,
            isMatrix |-> IsMatrixDetected(RunsLabelled(items, taskName)),
            instanceCount |-> Len(RunsLabelled(items, taskName))]]

----------------------------------------------------------------------------
(* 4.2 Matrix Detector: the caching wrapper.  The cache is a Map, kept as the *)
(* sequence of its entries in insertion order; a result object is the map  *)
(* the detector computed together with the number that tells it apart from *)
(* every other object the wrapper has computed.                            *)

CacheLimit == 100
EvictCount == 50

CacheKeys(cache) == {cache[i].key : i \in 1..Len(cache)}

CacheGetNothing(cache, key) == <<>>

\* matrixDetectionCache.get(key), as a sequence of at most one result object
CacheGet(cache, key) ==
    LET hits == SelectSeq(cache, LAMBDA e : e.key = key)
    IN IF hits = <<>> THEN <<>> ELSE <<hits[1].value>>

\* matrixDetectionCache.set(key, value): a new key goes to the end, an old
\* key keeps its place
CacheSet(cache, key, value) ==
    IF key \in CacheKeys(cache)
    THEN [i \in 1..Len(cache) |->
             IF cache[i].key = key THEN [key |-> key, value |-> value] ELSE cache[i]]
    ELSE Append(cache, [key |-> key, value |-> value])

EvictNothing(cache) == cache

\* with more than 100 entries, delete the first 50 keys
Evict(cache) ==
    IF Len(cache) > CacheLimit
    THEN SubSeq(cache, (IF Len(cache) < EvictCount THEN Len(cache) ELSE EvictCount) + 1,
                Len(cache))
    ELSE cache

\* what a call returns and leaves in the cache; key is the cache key of the
\* call, or the generated one when the call has none; computed is the number
\* of objects computed before the call
detectMatrixTasksWithCaching(cache, computed, runs, key) ==
    LET cached == CacheGet(cache, key)
        result == [obj |-> computed + 1, map |-> detectMatrixTasks(runs)]
    IN IF cached # <<>>
       THEN [value |-> cached[1], hit |-> TRUE, cache |-> cache, computed |-> computed]
       ELSE [value |-> result, hit |-> FALSE,
             cache |-> CacheSet(Evict(cache), key, result), computed |-> computed + 1]

clearMatrixDetectionCache(cache) == <<>>

----------------------------------------------------------------------------
(* 4.4 Status Merger: the fields of a task-with-status record that the list *)
(* and graph builders read.  run is the position in the task-run list of   *)
(* the record whose status payload was merged (0: none).                   *)

TaskWithStatus(task, reason, run) ==
    [name |-> task.name, runAfter |-> task.runAfter, params |-> task.params,
     when |-> task.when, matrix |-> task.matrix, reason |-> reason, run |-> run,
     isMatrix |-> FALSE, originalName |-> Undef,
     matrixValue |-> Undef, matrixDisplayName |-> Undef]

createTaskWithStatus(task, taskRun, run) ==
    TaskWithStatus(task, taskRun.reason, run)

Unknown == <<"u","n","k","n","o","w","n">>

MatrixName(taskName, nameSuffix) == taskName \o <<"-">> \o nameSuffix

createMatrixTaskEntry(task, taskRun, run, pRun, matrixValue, matrixDisplayName) ==
    LET matrixTask == createTaskWithStatus(task, taskRun, run)
        taskRunName == taskRun.name
        childRefDisplayName ==
            IF Falsy(taskRunName) THEN Undef
            ELSE getDisplayNameFromChildReferences(pRun, taskRunName)
        displayName ==
            IF ~Falsy(childRefDisplayName) THEN childRefDisplayName
            ELSE IF ~Falsy(matrixDisplayName) THEN sanitizeDisplayName(matrixDisplayName)
            ELSE IF ~Falsy(matrixValue) THEN matrixValue
            ELSE Unknown
        nameSuffix ==
            IF ~Falsy(childRefDisplayName) THEN sanitizeNameSuffix(childRefDisplayName)
            ELSE IF ~Falsy(matrixDisplayName) THEN sanitizeNameSuffix(displayName)
            ELSE IF ~Falsy(matrixValue) THEN sanitizeNameSuffix(matrixValue)
            ELSE Unknown
    IN [matrixTask EXCEPT !.name = MatrixName(task.name, nameSuffix),
                          !.originalName = task.name,
                          !.matrixValue = matrixValue,
                          !.matrixDisplayName = displayName,
                          !.isMatrix = TRUE]

----------------------------------------------------------------------------
(* 4.4 Status Merger: the status of one step.  A task status is null or has *)
(* a reason ("" when it has none) and the list of its run-time step         *)
(* entries; an entry has a name and the state of its container: terminated  *)
(* (with the reason and the two times), running (with the start time) or    *)
(* waiting.  A time is a number, 0 when there is none.                      *)

StepPrefix == <<"s", "t", "e", "p", "-">>

StepEntry(name, state, reason, startedAt, finishedAt) ==
    [name |-> name, state |-> state, reason |-> reason,
     startedAt |-> startedAt, finishedAt |-> finishedAt]

TaskStatus(reason, steps) == [isNull |-> FALSE, reason |-> reason, steps |-> steps]

NullTaskStatus == [isNull |-> TRUE, reason |-> "", steps |-> <<>>]

getMatchingStepFirstPrev(stepName, status) ==
    LET statusSteps == IF status.isNull THEN <<>> ELSE status.steps
        found == {i \in 1..Len(statusSteps) :
                      \/ statusSteps[i].name = stepName
                      \/ statusSteps[i].name = StepPrefix \o stepName}
        at == IF found = {} THEN 0 ELSE CHOOSE i \in found : \A j \in found : i <= j
    IN [result |-> IF at = 0 THEN <<>> ELSE <<statusSteps[at]>>,
        prevStep |-> IF at = 1 \/ statusSteps = <<>> THEN <<>> ELSE <<statusSteps[1]>>]

\* the first entry named stepName or step-stepName, and the last entry that
\* find visited before it (none when the first entry matches)
getMatchingStep(stepName, status) ==
    LET statusSteps == IF status.isNull THEN <<>> ELSE status.steps
        found == {i \in 1..Len(statusSteps) :
                      \/ statusSteps[i].name = stepName
                      \/ statusSteps[i].name = StepPrefix \o stepName}
        at == IF found = {} THEN 0 ELSE CHOOSE i \in found : \A j \in found : i <= j
        visited == IF at = 0 THEN Len(statusSteps) ELSE at - 1
    IN [result |-> IF at = 0 THEN <<>> ELSE <<statusSteps[at]>>,
        prevStep |-> IF visited = 0 THEN <<>> ELSE <<statusSteps[visited]>>]

createStepStatus(stepName, status, isFinalStep) ==
    LET match == getMatchingStep(stepName, status)
        matchingStep == match.result
        prevStep == match.prevStep
        Step(stepRunStatus, startTime, endTime) ==
            [name |-> stepName, status |-> stepRunStatus,
             startTime |-> startTime, endTime |-> endTime]
    IN IF status.isNull \/ status.reason = "" THEN Step("Cancelled", 0, 0)
       ELSE IF matchingStep = <<>> THEN Step("Pending", 0, 0)
       ELSE IF matchingStep[1].state = "terminated"
       THEN Step(IF status.reason = "TestFailed" /\ isFinalStep THEN "TestFailed"
                 ELSE IF matchingStep[1].reason = "Completed" THEN "Succeeded"
                 ELSE "Failed",
                 matchingStep[1].startedAt, matchingStep[1].finishedAt)
       ELSE IF matchingStep[1].state = "running"
       THEN IF prevStep = <<>> THEN Step("Running", matchingStep[1].startedAt, 0)
            ELSE IF prevStep[1].state = "terminated"
            THEN Step("Running", prevStep[1].finishedAt, 0)
            ELSE Step("Pending", 0, 0)
       ELSE Step("Pending", 0, 0)

----------------------------------------------------------------------------
(* 4.5 Task List Builder *)

\* the logical task name of a record: the label, else the pipelineTaskName field
LogicalName(tr) ==
    IF tr.hasLabels /\ ~Falsy(tr.label) THEN tr.label
    ELSE IF ~Falsy(tr.pipelineTaskName) THEN tr.pipelineTaskName
    ELSE Undef

RunsOfTaskLastFirst(items, taskName) ==
    LET found == SelectSeq([i \in 1..Len(items) |-> i],
                           LAMBDA i : LogicalName(items[i]) = taskName)
    IN [k \in 1..Len(found) |-> found[Len(found) + 1 - k]]

\* taskRunsByTaskName.get(name): the positions of the records of that task
RunsOfTask(items, taskName) ==
    SelectSeq([i \in 1..Len(items) |-> i], LAMBDA i : LogicalName(items[i]) = taskName)

NoStatusReasonIdle == "Idle"

\* the reason of the placeholder of a task whose pipeline run has no status
NoStatusReason == "Pending"

\* the records appendStatus emits for one declared task
EntriesOfTask(task, pRun, runs, matrixTasksMap) ==
    IF ~pRun.hasStatus THEN <<TaskWithStatus(task, NoStatusReason, 0)>>
    ELSE IF runs.isNull \/ Len(runs.items) = 0
    THEN <<TaskWithStatus(task, pRun.reason, 0)>>
    ELSE LET taskRunsForTask == RunsOfTask(runs.items, task.name)
             isMatrix == /\ task.name \in DOMAIN matrixTasksMap
                         /\ matrixTasksMap[task.name].isMatrix
             hasMultipleTaskRuns == Len(taskRunsForTask) > 1
         IN IF Len(taskRunsForTask) = 0
            THEN <<TaskWithStatus(task,
                       IF task.name \in pRun.skippedTasks THEN "Skipped" ELSE "Idle", 0)>>
            ELSE IF isMatrix \/ hasMultipleTaskRuns
            THEN [k \in 1..Len(taskRunsForTask) |->
                     LET taskRun == runs.items[taskRunsForTask[k]]
                         matrixLabel ==
                             createMatrixInstanceLabel(task, taskRun, pRun, k - 1)
                     IN createMatrixTaskEntry(task, taskRun, taskRunsForTask[k],
                                              pRun, matrixLabel, Undef)]
            ELSE <<createTaskWithStatus(task, runs.items[taskRunsForTask[1]],
                                        taskRunsForTask[1])>>

appendStatus(pipe, pRun, runs, isFinallyTasks) ==
    IF pipe.isNull THEN <<>>
    ELSE LET tasks == IF isFinallyTasks THEN pipe.finally ELSE pipe.tasks
             matrixTasksMap == detectMatrixTasks(runs)
         IN Flatten([i \in 1..Len(tasks) |->
                        EntriesOfTask(tasks[i], pRun, runs, matrixTasksMap)])

----------------------------------------------------------------------------
(* 4.6 Graph Model Builder *)

\* the task names a string references, each once, in order of first appearance
RECURSIVE extractDepsFromContextVariables(_)
extractDepsFromContextVariables(refs) ==
    IF refs = <<>> THEN <<>>
    ELSE LET deps == extractDepsFromContextVariables(SubSeq(refs, 1, Len(refs) - 1))
             last == refs[Len(refs)]
         IN IF last \in Range(deps) THEN deps ELSE Append(deps, last)

RawDeps(task) ==
    task.runAfter
    \o Flatten([i \in 1..Len(task.params) |->
                   extractDepsFromContextVariables(task.params[i])])
    \o Flatten([i \in 1..Len(task.when) |->
                   extractDepsFromContextVariables(task.when[i])])

\* the names of the records of the list whose originalName is dep
InstancesOf(dep, list) ==
    LET matrixInstances == SelectSeq(list, LAMBDA t : t.originalName = dep)
    IN [i \in 1..Len(matrixInstances) |-> matrixInstances[i].name]

expandMatrixDependenciesFirstOnly(deps, list) ==
    Flatten([i \in 1..Len(deps) |->
                LET names == InstancesOf(deps[i], list)
                IN IF Len(names) >= 1 THEN <<names[1]>> ELSE <<deps[i]>>])

expandMatrixDependencies(deps, list) ==
    Flatten([i \in 1..Len(deps) |->
                LET names == InstancesOf(deps[i], list)
                IN IF Len(names) > 1 THEN names
                   ELSE IF Len(names) = 1 THEN <<names[1]>>
                   ELSE <<deps[i]>>])

OpenParen == <<" ", "(">>
CloseParen == <<")">>

NodeLabel(task) ==
    IF task.isMatrix /\ ~Falsy(task.matrixDisplayName)
    THEN (IF ~Falsy(task.originalName) THEN task.originalName ELSE task.name)
         \o OpenParen \o task.matrixDisplayName \o CloseParen
    ELSE task.name

\* taskRuns.find(tr => tr.metadata.labels[pipelineTask] === name): the position
\* of the first such record, 0 when there is none, -1 when the lookup throws
\* (a null list, or a record without labels met before a match)
FindRunByLabel(runs, name) ==
    IF runs.isNull THEN -1
    ELSE LET items == runs.items
             Before(i) == \A j \in 1..(i - 1) :
                              items[j].hasLabels /\ items[j].label # name
             hits == {i \in 1..Len(items) :
                         Before(i) /\ items[i].hasLabels /\ items[i].label = name}
             bad == {i \in 1..Len(items) : Before(i) /\ ~items[i].hasLabels}
         IN IF bad # {} THEN -1
            ELSE IF hits = {} THEN 0
            ELSE CHOOSE i \in hits : TRUE

TaskRunForTask(task, runs) ==
    IF task.isMatrix /\ ~Falsy(task.originalName)
    THEN FindRunByLabel(runs, task.originalName)
    ELSE FindRunByLabel(runs, task.name)

\* the node the builder maps a task-with-status record to; task is the
\* position of that record in the list
MapNode(list, k, runs) ==
    [id |-> list[k].name,
     label |-> NodeLabel(list[k]),
     runAfterTasks |-> expandMatrixDependencies(RawDeps(list[k]), list),
     level |-> 0,
     task |-> k,
     taskRun |-> TaskRunForTask(list[k], runs)]

Includes(seq, x) == \E i \in 1..Len(seq) : seq[i] = x

\* hasParentDep with the depth of the recursion counted: "T", "F", or
\* "OVERFLOW" when the recursion comes back to a node it is already in (the
\* call never returns: the stack overflows and a RangeError is thrown)
RECURSIVE hasParentDepAt(_, _, _, _, _, _)
hasParentDepAt(dep, otherDeps, k, nodes, list, fuel) ==
    IF fuel = 0 THEN "OVERFLOW"
    ELSE IF k > Len(otherDeps) THEN "F"
    ELSE LET otherDep == otherDeps[k]
             depNode == First(SelectSeq(nodes, LAMBDA n : n.id = otherDep))
             depNodeByOriginal ==
                 First(SelectSeq(nodes, LAMBDA n : list[n.task].originalName = otherDep))
             viaOriginal ==
                 IF depNode # <<>> \/ depNodeByOriginal = <<>> THEN "F"
                 ELSE IF Includes(depNodeByOriginal[1].runAfterTasks, dep) THEN "T"
                 ELSE hasParentDepAt(dep, depNodeByOriginal[1].runAfterTasks, 1,
                                     nodes, list, fuel - 1)
             viaId ==
                 IF depNode = <<>> THEN "F"
                 ELSE IF Includes(depNode[1].runAfterTasks, dep) THEN "T"
                 ELSE hasParentDepAt(dep, depNode[1].runAfterTasks, 1,
                                     nodes, list, fuel - 1)
         IN IF otherDep = dep
            THEN hasParentDepAt(dep, otherDeps, k + 1, nodes, list, fuel)
            ELSE IF viaOriginal # "F" THEN viaOriginal
            ELSE IF viaId # "F" THEN viaId
            ELSE hasParentDepAt(dep, otherDeps, k + 1, nodes, list, fuel)

hasParentDepAnyOther(dep, otherDeps, nodes, list) ==
    IF \E k \in 1..Len(otherDeps) : otherDeps[k] # dep THEN "T" ELSE "F"

hasParentDep(dep, otherDeps, nodes, list) ==
    hasParentDepAt(dep, otherDeps, 1, nodes, list, Len(nodes) + 2)

\* nodes.forEach(taskNode => taskNode.runAfterTasks = taskNode.runAfterTasks
\* .filter(...)), in place and in order, from node i on
RECURSIVE PruneFrom(_, _, _)
PruneFrom(nodes, i, list) ==
    IF i > Len(nodes) THEN [threw |-> FALSE, nodes |-> nodes]
    ELSE LET deps == nodes[i].runAfterTasks
             verdict == [k \in 1..Len(deps) |-> hasParentDep(deps[k], deps, nodes, list)]
             kept == SelectSeq([k \in 1..Len(deps) |-> k], LAMBDA k : verdict[k] = "F")
         IN IF \E k \in 1..Len(deps) : verdict[k] = "OVERFLOW"
            THEN [threw |-> TRUE, nodes |-> nodes]
            ELSE PruneFrom([nodes EXCEPT ![i].runAfterTasks =
                               [k \in 1..Len(kept) |-> deps[kept[k]]]],
                           i + 1, list)

ValidateRefsNone(nodes) == nodes

\* drop the dependencies that are no node id
ValidateRefs(nodes) ==
    LET validNodeIds == {nodes[i].id : i \in 1..Len(nodes)}
    IN [i \in 1..Len(nodes) |->
           [nodes[i] EXCEPT !.runAfterTasks =
               SelectSeq(nodes[i].runAfterTasks, LAMBDA dep : dep \in validNodeIds)]]

\* getNodeLevel with the depth of the recursion counted: the level, or -1 when
\* the recursion comes back to a node it is already in (a RangeError)
RECURSIVE getNodeLevelAt(_, _, _)
getNodeLevelAt(node, allNodes, fuel) ==
    IF fuel = 0 THEN -1
    ELSE LET children == SelectSeq(allNodes, LAMBDA n : Includes(n.runAfterTasks, node.id))
             levels == [k \in 1..Len(children) |->
                           getNodeLevelAt(children[k], allNodes, fuel - 1)]
         IN IF Len(children) = 0 THEN 0
            ELSE IF \E k \in 1..Len(children) : levels[k] = -1 THEN -1
            ELSE 1 + (CHOOSE m \in Range(levels) \cup {0} :
                          \A x \in Range(levels) \cup {0} : m >= x)

getNodeLevelOfSink(node, allNodes) == 0

getNodeLevelNoMax(node, allNodes) ==
    IF \E k \in 1..Len(allNodes) : Includes(allNodes[k].runAfterTasks, node.id)
    THEN 1 ELSE 0

getNodeLevel(node, allNodes) == getNodeLevelAt(node, allNodes, Len(allNodes) + 1)

SetLevels(nodes) ==
    [i \in 1..Len(nodes) |-> [nodes[i] EXCEPT !.level = getNodeLevel(nodes[i], nodes)]]

FinallyNode(fList, k, runs) ==
    [id |-> fList[k].name, label |-> fList[k].name, runAfterTasks |-> <<>>,
     level |-> 0, task |-> k, taskRun |-> FindRunByLabel(runs, fList[k].name)]

\* What a call of getGraphDataModel leaves: kind "threw" when an exception
\* leaves the call, else kind "model" with the task nodes and the finally nodes;
\* mapped and pruned are the task nodes as first built and after edge pruning.
getGraphDataModel(pipe, pRun, runs) ==
    LET list == appendStatus(pipe, pRun, runs, FALSE)
        mapped == [k \in 1..Len(list) |-> MapNode(list, k, runs)]
        pruned == PruneFrom(mapped, 1, list)
        valid == ValidateRefs(pruned.nodes)
        levelled == SetLevels(valid)
        fList == appendStatus(pipe, pRun, runs, TRUE)
        finallyNodes == [k \in 1..Len(fList) |-> FinallyNode(fList, k, runs)]
        Threw(why) == [kind |-> "threw", why |-> why, taskList |-> list,
                       mapped |-> <<>>, pruned |-> <<>>, nodes |-> <<>>,
                       finallyNodes |-> <<>>]
    IN IF \E k \in 1..Len(mapped) : mapped[k].taskRun = -1 THEN Threw("TypeError")
       ELSE IF pruned.threw THEN Threw("RangeError")
       ELSE IF \E k \in 1..Len(levelled) : levelled[k].level = -1 THEN Threw("RangeError")
       ELSE IF \E k \in 1..Len(finallyNodes) : finallyNodes[k].taskRun = -1
       THEN Threw("TypeError")
       ELSE [kind |-> "model", why |-> "", taskList |-> list, mapped |-> mapped,
             pruned |-> pruned.nodes, nodes |-> levelled, finallyNodes |-> finallyNodes]

getPipelineRunDataModel(pipe, pRun, runs) ==
    IF ~pRun.hasStatus \/ ~pRun.hasSpec
    THEN [kind |-> "null", why |-> "", taskList |-> <<>>, mapped |-> <<>>,
          pruned |-> <<>>, nodes |-> <<>>, finallyNodes |-> <<>>]
    ELSE getGraphDataModel(pipe, pRun, runs)

----------------------------------------------------------------------------
(* Label lookup for the logs and side-panel views *)

getTaskDisplayInfo(task, taskRun, pRun, allTaskRuns) ==
    LET taskName == task.name
        matrixTaskRuns == RunsLabelled(allTaskRuns, taskName)
        isMatrixTask == Len(matrixTaskRuns) > 1
        hits == {i \in 1..Len(matrixTaskRuns) : matrixTaskRuns[i].name = taskRun.name}
        instanceIndex ==
            IF hits = {} THEN -1 ELSE (CHOOSE i \in hits : \A j \in hits : i <= j) - 1
        additionalInfo ==
            IF isMatrixTask
            THEN IF instanceIndex >= 0
                 THEN createMatrixInstanceLabel(task, taskRun, pRun, instanceIndex)
                 ELSE Undef
            ELSE getDisplayNameFromChildReferencesRaw(pRun, taskRun.name)
    IN [taskName |-> taskName,
        additionalInfo |-> additionalInfo,
        displayString |-> IF ~Falsy(additionalInfo)
                          THEN taskName \o OpenParen \o additionalInfo \o CloseParen
                          ELSE taskName]

----------------------------------------------------------------------------
(* PipelineRunLogs: the selected log and the page address.  The address     *)
(* holds the parameters task and index as strings (Undef: not there).       *)

RECURSIVE ParseInt(_)
ParseInt(digits) ==
    IF digits = <<>> THEN 0
    ELSE ParseInt(SubSeq(digits, 1, Len(digits) - 1)) * 10
         + ((CHOOSE i \in 1..10 : Digits[i] = digits[Len(digits)]) - 1)

\* name.match(/-(\d+)$/): the digits at the end of the name when a '-' stands
\* before them, as a sequence of at most one string
TrailingDigits(name) ==
    LET n == Len(name)
        runs == {k \in 0..n : \A i \in (n - k + 1)..n : name[i] \in DigitSet}
        k == CHOOSE m \in runs : \A j \in runs : m >= j
    IN IF k >= 1 /\ n - k >= 1 /\ name[n - k] = "-"
       THEN <<SubSeq(name, n - k + 1, n)>> ELSE <<>>

\* aMatch ? parseInt(aMatch[1], 10) : 0
SortIndex(name) ==
    IF TrailingDigits(name) = <<>> THEN 0 ELSE ParseInt(TrailingDigits(name)[1])

\* the records in ascending order of the given indexes; sort is stable
RECURSIVE SortedByIndexFrom(_, _)
SortedByIndexFrom(runs, indexes) ==
    IF indexes = {} THEN <<>>
    ELSE LET m == CHOOSE x \in indexes : \A y \in indexes : x <= y
         IN SelectSeq(runs, LAMBDA tr : SortIndex(tr.name) = m)
            \o SortedByIndexFrom(runs, indexes \ {m})

SortedByIndex(runs) ==
    SortedByIndexFrom(runs, {SortIndex(runs[i].name) : i \in 1..Len(runs)})

\* handleActiveTaskChange of the details view: both parameters are written
\* at once
handleActiveTaskChange(taskName, matrixIndex) ==
    IF ~Falsy(taskName)
    THEN [task |-> taskName,
          index |-> IF matrixIndex = <<>> THEN Undef ELSE NumToStr(matrixIndex[1])]
    ELSE NoTask

\* onNavSelect: what it reports to onActiveTaskChange for a run of the list
onNavSelect(items, taskRunName) ==
    LET selectedTaskRun == First(SelectSeq(items, LAMBDA tr : tr.name = taskRunName))
        pipelineTaskName ==
            IF selectedTaskRun[1].hasLabels THEN selectedTaskRun[1].label ELSE Undef
        indexMatch == TrailingDigits(taskRunName)
        index == IF indexMatch = <<>> THEN <<>> ELSE <<ParseInt(indexMatch[1])>>
    IN handleActiveTaskChange(pipelineTaskName, index)

\* matrixTaskRuns[targetIndex] of the runs of the task sorted by their index,
\* as a sequence of at most one record
MatrixTaskRunAt(items, taskName, indexParam) ==
    LET matrixTaskRuns == SortedByIndex(RunsLabelled(items, taskName))
        targetIndex == ParseInt(indexParam)
    IN IF targetIndex < Len(matrixTaskRuns) THEN <<matrixTaskRuns[targetIndex + 1]>>
       ELSE <<>>

\* componentDidMount of PipelineRunLogs.tsx: the activeItem it leaves in a
\* component that was constructed with activeItem null (<<>>)
componentDidMount(items, loc) ==
    LET activeTask == loc.task
        indexParam == loc.index
        firstTaskRun == First(RunsLabelled(items, activeTask))
    IN IF Falsy(activeTask) \/ Len(items) = 0 THEN <<>>
       ELSE IF indexParam # Undef
       THEN IF MatrixTaskRunAt(items, activeTask, indexParam) # <<>>
            THEN MatrixTaskRunAt(items, activeTask, indexParam)[1].name
            ELSE <<>>
       ELSE IF firstTaskRun # <<>> THEN firstTaskRun[1].name
       ELSE <<>>

\* getSortedTaskRun of the second variant: the labelled runs by declared
\* task, the runs of a task with several runs by their index
getSortedTaskRun(items, tasks) ==
    Flatten([t \in 1..Len(tasks) |->
                LET group == RunsLabelled(items, tasks[t].name)
                IN IF Len(group) > 1 THEN SortedByIndex(group) ELSE group])

\* getActiveTaskRun of the second variant, the name or <<>>
getActiveTaskRun(runs, activeTask) ==
    LET byName == First(SelectSeq(runs, LAMBDA tr : tr.name = activeTask))
        byLabel == First(RunsLabelled(runs, activeTask))
        failed == First(SelectSeq(runs, LAMBDA tr : tr.reason = "Failed"))
    IN IF ~Falsy(activeTask) /\ TrailingDigits(activeTask) # <<>> /\ byName # <<>>
       THEN byName[1].name
       ELSE IF ~Falsy(activeTask) /\ byLabel # <<>> THEN byLabel[1].name
       ELSE IF failed # <<>> THEN failed[1].name
       ELSE IF runs # <<>> THEN runs[Len(runs)].name
       ELSE <<>>

\* updateActiveItemFromProps of the second variant of the component: the
\* activeItem it leaves, given the one it finds
updateActiveItemFromProps(items, tasks, loc, current) ==
    LET activeTask == loc.task
        indexParam == loc.index
        firstTaskRun == First(RunsLabelled(items, activeTask))
        defaultActiveItem == getActiveTaskRun(getSortedTaskRun(items, tasks), activeTask)
    IN IF Len(items) = 0 THEN current
       ELSE IF /\ ~Falsy(activeTask)
               /\ indexParam # Undef
               /\ MatrixTaskRunAt(items, activeTask, indexParam) # <<>>
       THEN MatrixTaskRunAt(items, activeTask, indexParam)[1].name
       ELSE IF ~Falsy(activeTask) /\ firstTaskRun # <<>> THEN firstTaskRun[1].name
       ELSE IF defaultActiveItem # <<>> THEN defaultActiveItem
       ELSE current

----------------------------------------------------------------------------
(* Specification of the sanitizer calls *)

MaxTextLen == 3

SanAlphabet == {"a", " ", "<", ">", "&"}

RECURSIVE StringsUpTo(_, _)
StringsUpTo(alphabet, n) ==
    IF n = 0 THEN {<<>>}
    ELSE LET shorter == StringsUpTo(alphabet, n - 1)
         IN shorter \cup {Append(s, c) : s \in shorter, c \in alphabet}

Pad(n) == [i \in 1..n |-> "a"]

\* short strings, and strings whose length is around the limit
SanitizeInputs ==
    {Undef} \cup
    {Pad(k) \o w : k \in {0, MaxDisplayLen - 2, MaxDisplayLen - 1, MaxDisplayLen},
                   w \in StringsUpTo(SanAlphabet, MaxTextLen)}

InitSanitize ==
    /\ pc = "start"
    /\ text \in SanitizeInputs
    /\ ret = <<>>
    /\ pipeline = NullPipeline
    /\ pipelineRun = NoPipelineRun
    /\ taskRuns = NullTaskRuns
    /\ taskList = <<>>
    /\ model = <<>>
    /\ NoCacheNoHook

SanitizeDisplayName ==
    /\ pc = "start"
    /\ ret' = <<sanitizeDisplayName(text)>>
    /\ pc' = "once"
    /\ UNCHANGED <<pipeline, pipelineRun, taskRuns, taskList, model, text>>
    /\ UNCHANGED <<cacheVars, hookVars, logVars, stepVars>>

SanitizeDisplayNameAgain ==
    /\ pc = "once"
    /\ ret' = Append(ret, sanitizeDisplayName(ret[1]))
    /\ pc' = "twice"
    /\ UNCHANGED <<pipeline, pipelineRun, taskRuns, taskList, model, text>>
    /\ UNCHANGED <<cacheVars, hookVars, logVars, stepVars>>

NextSanitize == SanitizeDisplayName \/ SanitizeDisplayNameAgain

SpecSanitize == InitSanitize /\ [][NextSanitize]_vars

----------------------------------------------------------------------------
(* Specification of the instance labeler calls *)

MaxMatrixParams == 4
MaxIndex == 3

ParamName(i) == <<"P">> \o NumToStr(i)

\* a declared value list of two, of one, of one empty string, or a single string
ParamShapes ==
    {[isArray |-> TRUE, value |-> <<<<"x">>, <<"y">>>>],
     [isArray |-> TRUE, value |-> <<<<"x">>>>],
     [isArray |-> TRUE, value |-> <<<<>>>>],
     [isArray |-> FALSE, value |-> <<"x">>]}

RECURSIVE MatrixDeclsOfLen(_)
MatrixDeclsOfLen(n) ==
    IF n = 0 THEN {<<>>}
    ELSE {Append(m, [name |-> ParamName(n), isArray |-> sh.isArray, value |-> sh.value]) :
              m \in MatrixDeclsOfLen(n - 1), sh \in ParamShapes}

MatrixDecls == UNION {MatrixDeclsOfLen(n) : n \in 0..MaxMatrixParams}

RunName(i) == <<"r">> \o NumToStr(i)

LiveParams ==
    {<<>>,
     <<[name |-> ParamName(1), value |-> <<"y">>]>>,
     <<[name |-> ParamName(1), value |-> <<"x">>],
       [name |-> ParamName(2), value |-> <<"y">>]>>,
     <<[name |-> <<"Q">>, value |-> <<"x">>]>>,
     <<[name |-> ParamName(1), value |-> <<"<", "y">>]>>}

\* '<s>a</s>B': markup around text, as in '<script>alert(1)</script>Build'
ScriptBuild == <<"<", "s", ">", "a", "<", "/", "s", ">", "B">>

LabelPipelineRuns ==
    {PipelineRunNoRefs,
     PipelineRun(<<ChildRef(RunName(1), <<"d">>)>>, {}),
     PipelineRun(<<ChildRef(RunName(1), <<"<", "b", ">">>)>>, {}),
     PipelineRun(<<ChildRef(RunName(1), ScriptBuild)>>, {}),
     PipelineRun(<<ChildRef(RunName(1), Undef)>>, {}),
     PipelineRun(<<ChildRef(RunName(2), <<"d">>)>>, {})}

InitLabel ==
    /\ pc = "start"
    /\ \E m \in MatrixDecls : pipeline = Pipeline(<<Task(<<"a">>, <<>>, <<>>, m)>>)
    /\ \E q \in LiveParams :
           taskRuns = TaskRuns(<<TaskRun(RunName(1), <<"a">>, Undef, <<>>, q)>>)
    /\ pipelineRun \in LabelPipelineRuns
    /\ text = <<>>
    /\ ret = <<>>
    /\ taskList = <<>>
    /\ model = <<>>
    /\ NoCacheNoHook

CreateMatrixInstanceLabel(index) ==
    /\ pc = "start"
    /\ ret' = <<[index |-> index,
                 label |-> createMatrixInstanceLabel(pipeline.tasks[1],
                                     taskRuns.items[1], pipelineRun, index)]>>
    /\ pc' = "labelled"
    /\ UNCHANGED <<pipeline, pipelineRun, taskRuns, taskList, model, text>>
    /\ UNCHANGED <<cacheVars, hookVars, logVars, stepVars>>

NextLabel == \E index \in 0..MaxIndex : CreateMatrixInstanceLabel(index)

SpecLabel == InitLabel /\ [][NextLabel]_vars

----------------------------------------------------------------------------
(* Specification of the task list builder calls *)

MaxRuns == 3

TaskA == <<"a">>
TaskAX == <<"a", "-", "x">>

\* what task a declares as its matrix: nothing, one parameter with a list of
\* two values, one parameter with a single value that is all punctuation
StatusMatrixDecls ==
    {<<>>,
     <<[name |-> ParamName(1), isArray |-> TRUE, value |-> <<<<"x">>, <<"x", "/", " ", "y">>>>]>>,
     <<[name |-> ParamName(1), isArray |-> FALSE, value |-> <<"/">>]>>}

\* a record at position i of the task-run list
RunShapes(i) ==
    {TaskRun(RunName(i), TaskA, Undef, <<>>, <<>>),
     TaskRun(RunName(i), TaskA, Undef, <<Annotation("SCAN_TYPE", <<"v">>)>>, <<>>),
     TaskRun(RunName(i), TaskA, Undef, <<Annotation("description", <<"v">>)>>, <<>>),
     TaskRun(RunName(i), TaskA, Undef, <<>>,
             <<[name |-> ParamName(1), value |-> <<"y">>]>>),
     TaskRun(RunName(i), TaskAX, Undef, <<>>, <<>>),
     TaskRun(RunName(i), Undef, TaskA, <<>>, <<>>),
     TaskRun(RunName(i), Undef, Undef, <<>>, <<>>)}

RECURSIVE RunListsOfLen(_)
RunListsOfLen(n) ==
    IF n = 0 THEN {<<>>}
    ELSE {Append(l, r) : l \in RunListsOfLen(n - 1), r \in RunShapes(n)}

StatusRunLists == UNION {RunListsOfLen(n) : n \in 0..MaxRuns}

StatusPipelineRuns ==
    {NoPipelineRun,
     PipelineRunNoRefs,
     PipelineRun(<<ChildRef(RunName(1), <<"x">>)>>, {}),
     PipelineRun(<<ChildRef(RunName(1), <<"x">>), ChildRef(RunName(2), <<"x">>)>>, {}),
     PipelineRun(<<ChildRef(RunName(1), <<"&", "-", "x", " ", "-", "y", "-">>),
                   ChildRef(RunName(2), <<"<", "b", ">">>)>>, {TaskAX})}

InitStatus ==
    /\ pc = "start"
    /\ \E m \in StatusMatrixDecls :
           pipeline = Pipeline(<<Task(TaskA, <<>>, <<>>, m),
                                 Task(TaskAX, <<>>, <<>>, <<>>)>>)
    /\ \E l \in StatusRunLists : taskRuns = TaskRuns(l)
    /\ pipelineRun \in StatusPipelineRuns
    /\ text = <<>>
    /\ ret = <<>>
    /\ taskList = <<>>
    /\ model = <<>>
    /\ NoCacheNoHook

AppendStatus ==
    /\ pc = "start"
    /\ taskList' = appendStatus(pipeline, pipelineRun, taskRuns, FALSE)
    /\ pc' = "listed"
    /\ UNCHANGED <<pipeline, pipelineRun, taskRuns, model, text, ret>>
    /\ UNCHANGED <<cacheVars, hookVars, logVars, stepVars>>

DetectMatrixTasks ==
    /\ pc = "start"
    /\ ret' = <<detectMatrixTasks(taskRuns)>>
    /\ pc' = "grouped"
    /\ UNCHANGED <<pipeline, pipelineRun, taskRuns, taskList, model, text>>
    /\ UNCHANGED <<cacheVars, hookVars, logVars, stepVars>>

NextStatus ==
    \/ AppendStatus
    \/ DetectMatrixTasks

SpecStatus == InitStatus /\ [][NextStatus]_vars

----------------------------------------------------------------------------
(* Specification of the label lookups: the graph is built, then a view asks *)
(* for the display string of one run record of one declared task           *)

GetPipelineRunDataModel ==
    /\ pc = "start"
    /\ model' = getPipelineRunDataModel(pipeline, pipelineRun, taskRuns)
    /\ pc' = "built"
    /\ UNCHANGED <<pipeline, pipelineRun, taskRuns, taskList, text, ret>>
    /\ UNCHANGED <<cacheVars, hookVars, logVars, stepVars>>

GetTaskDisplayInfo(i, r) ==
    /\ pc = "built"
    /\ ret' = <<[task |-> i, run |-> r,
                 info |-> getTaskDisplayInfo(pipeline.tasks[i], taskRuns.items[r],
                                             pipelineRun, taskRuns.items)]>>
    /\ pc' = "shown"
    /\ UNCHANGED <<pipeline, pipelineRun, taskRuns, taskList, model, text>>
    /\ UNCHANGED <<cacheVars, hookVars, logVars, stepVars>>

NextDisplay ==
    \/ GetPipelineRunDataModel
    \/ \E i \in 1..Len(pipeline.tasks) :
           \E r \in Range(RunsOfTask(taskRuns.items, pipeline.tasks[i].name)) :
               GetTaskDisplayInfo(i, r)

SpecDisplay == InitStatus /\ [][NextDisplay]_vars

----------------------------------------------------------------------------
(* Specification of the graph model builder calls *)

MaxInstances == 2

TaskB == <<"b">>
TaskC == <<"c">>
TaskD == <<"d">>
\* a name no task declares
TaskZ == <<"z">>

\* four declared tasks a, b, c, d; what each lists in runAfter, and the task
\* names the parameter values of c reference
RunAfterA == {<<>>, <<TaskA>>, <<TaskB>>, <<TaskZ>>, <<TaskD>>}
RunAfterB == {<<>>, <<TaskA>>, <<TaskC>>, <<TaskA, TaskZ>>}
RunAfterC == {<<>>, <<TaskA>>, <<TaskB>>, <<TaskA, TaskB>>, <<TaskB, TaskA>>,
              <<TaskA, TaskB, TaskZ>>}
ParamsC == {<<>>, <<<<TaskA>>>>, <<<<TaskB, TaskZ, TaskB>>>>}
RunAfterD == {<<>>, <<TaskC>>, <<TaskC, TaskA>>, <<TaskA, TaskC>>, <<TaskB, TaskC>>,
              <<TaskA, TaskB, TaskC>>}

GraphPipelines ==
    {Pipeline(<<Task(TaskA, ra, <<>>, <<>>), Task(TaskB, rb, <<>>, <<>>),
                Task(TaskC, rc, pc_, <<>>), Task(TaskD, rd, <<>>, <<>>)>>) :
         ra \in RunAfterA, rb \in RunAfterB, rc \in RunAfterC, pc_ \in ParamsC,
         rd \in RunAfterD}

\* a declared task whose name is the name an instance of a gets
CollisionPipelines ==
    {Pipeline(<<Task(TaskA, <<>>, <<>>, <<>>), Task(TaskAX, rx, <<>>, <<>>),
                Task(TaskB, <<>>, <<>>, <<>>), Task(TaskC, rc, <<>>, <<>>)>>) :
         rx \in {<<>>, <<TaskB>>},
         rc \in {<<TaskB>>, <<TaskAX, TaskB>>, <<TaskA, TaskB>>}}

PlainRun(i, taskName) == TaskRun(RunName(i), taskName, Undef, <<>>, <<>>)

\* MaxInstances records of the task, then one record of each of the others
RunsWithMatrix(taskName, others) ==
    [i \in 1..(MaxInstances + Len(others)) |->
        IF i <= MaxInstances THEN PlainRun(i, taskName)
        ELSE PlainRun(i, others[i - MaxInstances])]

AllX == [i \in 1..MaxInstances |-> ChildRef(RunName(i), <<"x">>)]

\* the pipeline-run and the task-run list of a call
GraphRuns ==
    {\* one record per task
     <<PipelineRunNoRefs,
       TaskRuns([i \in 1..4 |-> PlainRun(i, <<TaskA, TaskB, TaskC, TaskD>>[i])])>>,
     \* a is a matrix task without display names
     <<PipelineRunNoRefs, TaskRuns(RunsWithMatrix(TaskA, <<TaskB, TaskC, TaskD>>))>>,
     \* the instances of a all carry the display name 'x'
     <<PipelineRun(AllX, {}), TaskRuns(RunsWithMatrix(TaskA, <<TaskB, TaskC, TaskD>>))>>,
     \* b and c in the middle of the chain are matrix tasks
     <<PipelineRunNoRefs, TaskRuns(RunsWithMatrix(TaskB, <<TaskA, TaskC, TaskD>>))>>,
     <<PipelineRunNoRefs, TaskRuns(RunsWithMatrix(TaskC, <<TaskA, TaskB, TaskD>>))>>,
     \* a single record of a with a SCAN_TYPE annotation
     <<PipelineRunNoRefs,
       TaskRuns(<<TaskRun(RunName(1), TaskA, Undef,
                          <<Annotation("SCAN_TYPE", <<"v">>)>>, <<>>),
                  PlainRun(2, TaskB), PlainRun(3, TaskC), PlainRun(4, TaskD)>>)>>,
     \* c has not run; b was skipped
     <<PipelineRun(<<>>, {TaskB}), TaskRuns(<<PlainRun(1, TaskA), PlainRun(2, TaskD)>>)>>,
     \* no task-run list, an empty one, no pipeline-run status
     <<PipelineRunNoRefs, NullTaskRuns>>,
     <<PipelineRunNoRefs, TaskRuns(<<>>)>>,
     \* a record without metadata.labels before the record of a
     <<PipelineRunNoRefs,
       TaskRuns(<<[PlainRun(1, Undef) EXCEPT !.hasLabels = FALSE], PlainRun(2, TaskA)>>)>>,
     <<NoPipelineRun, TaskRuns(<<PlainRun(1, TaskA)>>)>>}

Init ==
    /\ pc = "start"
    /\ pipeline \in GraphPipelines \cup CollisionPipelines
    /\ \E g \in GraphRuns : pipelineRun = g[1] /\ taskRuns = g[2]
    /\ text = <<>>
    /\ ret = <<>>
    /\ taskList = <<>>
    /\ model = <<>>
    /\ NoCacheNoHook

Next == GetPipelineRunDataModel

Spec == Init /\ [][Next]_vars

----------------------------------------------------------------------------
(* Specification of the caching wrapper calls *)

MaxDetections == 104

\* the task-run lists of the calls: an empty one and one record of task a
CacheRunLists == {TaskRuns(<<>>), TaskRuns(<<PlainRun(1, TaskA)>>)}

\* the list a cache key is first used with
RunsForKey(key) ==
    IF key % 2 = 1 THEN TaskRuns(<<PlainRun(1, TaskA)>>) ELSE TaskRuns(<<>>)

\* the keys of a call: the oldest and the newest key in the cache, and one
\* that was not used since the cache was last empty
CallKeys ==
    LET used == CacheKeys(matrixDetectionCache)
        top == IF used = {} THEN 0 ELSE CHOOSE k \in used : \A j \in used : k >= j
    IN {top + 1}
       \cup (IF used = {} THEN {}
             ELSE {matrixDetectionCache[1].key, top})

InitCache ==
    /\ pc = "start"
    /\ pipeline = NullPipeline
    /\ pipelineRun = NoPipelineRun
    /\ taskRuns = TaskRuns(<<>>)
    /\ text = <<>>
    /\ ret = <<>>
    /\ taskList = <<>>
    /\ model = <<>>
    /\ NoCacheNoHook

DetectMatrixTasksWithCaching(runs, cacheKey) ==
    /\ detections < MaxDetections
    /\ cacheKey \in CacheKeys(matrixDetectionCache) \/ runs = RunsForKey(cacheKey)
    /\ LET call == detectMatrixTasksWithCaching(matrixDetectionCache, detections,
                                                runs, cacheKey)
       IN /\ matrixDetectionCache' = call.cache
          /\ detections' = call.computed
          /\ ret' = <<[key |-> cacheKey, hit |-> call.hit, value |-> call.value]>>
    /\ taskRuns' = runs
    /\ pc' = "detected"
    /\ UNCHANGED <<pipeline, pipelineRun, taskList, model, text, now, hookVars, logVars, stepVars>>

ClearMatrixDetectionCache ==
    /\ matrixDetectionCache' = clearMatrixDetectionCache(matrixDetectionCache)
    /\ pc' = "cleared"
    /\ UNCHANGED <<pipeline, pipelineRun, taskRuns, taskList, model, text, ret,
                   detections, now, hookVars, logVars, stepVars>>

NextCache ==
    \/ \E runs \in CacheRunLists, cacheKey \in CallKeys :
           DetectMatrixTasksWithCaching(runs, cacheKey)
    \/ ClearMatrixDetectionCache

SpecCache == InitCache /\ [][NextCache]_vars

----------------------------------------------------------------------------
(* Specification of the caching wrapper calls without a cache key *)

MaxClock == 2
MaxAutoCalls == 4

\* `${taskRuns.length}-${Date.now()}`: the two numbers the generated key is
\* written from
AutoKey(runs, clock) == <<Len(runs.items), clock>>

\* the task-run lists of the calls: an empty one, and two of one record
AutoRunLists ==
    {TaskRuns(<<>>), TaskRuns(<<PlainRun(1, TaskA)>>), TaskRuns(<<PlainRun(1, TaskB)>>)}

DetectMatrixTasksWithCachingNoKey(runs) ==
    /\ detections < MaxAutoCalls
    /\ LET call == detectMatrixTasksWithCaching(matrixDetectionCache, detections,
                                                runs, AutoKey(runs, now))
       IN /\ matrixDetectionCache' = call.cache
          /\ detections' = call.computed
          /\ ret' = <<[key |-> AutoKey(runs, now), hit |-> call.hit,
                       value |-> call.value]>>
    /\ taskRuns' = runs
    /\ pc' = "detected"
    /\ UNCHANGED <<pipeline, pipelineRun, taskList, model, text, now, hookVars, logVars, stepVars>>

\* a millisecond passes
Tick ==
    /\ now < MaxClock
    /\ now' = now + 1
    /\ UNCHANGED <<pc, pipeline, pipelineRun, taskRuns, taskList, model, text, ret,
                   matrixDetectionCache, detections, hookVars, logVars, stepVars>>

NextAutoKey ==
    \/ \E runs \in AutoRunLists : DetectMatrixTasksWithCachingNoKey(runs)
    \/ Tick
    \/ ClearMatrixDetectionCache

SpecAutoKey == InitCache /\ [][NextAutoKey]_vars

----------------------------------------------------------------------------
(* useTaskRuns: the hook that loads every page of the task-run query.  The  *)
(* query is the paged query of usePipelineRuns: it loads its first page,    *)
(* reports hasNextPage while pages are left, and getNextPage starts the     *)
(* fetch of the next one.                                                   *)

MaxPages == 12

hasNextPage(q) == q.pages >= 1 /\ q.pages < q.total

\* the first effect: fetch the next page unless a fetch was triggered before
FetchEffectFires(q, triggered) ==
    hasNextPage(q) /\ ~q.isFetchingNextPage /\ q.loaded /\ ~triggered

\* the effects whose dependencies differ between two renders
EffectsDue(q, r) ==
    (IF \/ hasNextPage(q) # hasNextPage(r)
        \/ q.isFetchingNextPage # r.isFetchingNextPage
        \/ q.loaded # r.loaded
     THEN {"fetch"} ELSE {})
    \cup (IF hasNextPage(q) # hasNextPage(r) THEN {"reset"} ELSE {})

InitPages ==
    /\ pc = "start"
    /\ pipeline = NullPipeline
    /\ pipelineRun = NoPipelineRun
    /\ taskRuns = TaskRuns(<<>>)
    /\ text = <<>>
    /\ ret = <<>>
    /\ taskList = <<>>
    /\ model = <<>>
    /\ matrixDetectionCache = <<>>
    /\ detections = 0
    /\ now = 0
    /\ NoLogs
    /\ stepCall = <<>>
    /\ \E n \in 1..MaxPages :
           query = [loaded |-> FALSE, pages |-> 0, total |-> n,
                    isFetchingNextPage |-> FALSE]
    /\ hasTriggeredFetch = FALSE
    /\ effects = {"fetch", "reset"}

\* the effects that are due run after the render, in the order of the hook;
\* getNextPage puts a fetch in flight
RunEffects ==
    /\ effects # {}
    /\ LET fires == "fetch" \in effects /\ FetchEffectFires(query, hasTriggeredFetch)
           afterFetch == IF fires THEN TRUE ELSE hasTriggeredFetch
           resets == "reset" \in effects /\ ~hasNextPage(query)
           fetching == [query EXCEPT !.isFetchingNextPage = TRUE]
       IN /\ hasTriggeredFetch' = IF resets THEN FALSE ELSE afterFetch
          /\ query' = IF fires THEN fetching ELSE query
          /\ effects' = IF fires THEN EffectsDue(query, fetching) ELSE {}
    /\ UNCHANGED <<pc, pipeline, pipelineRun, taskRuns, taskList, model, text, ret,
                   cacheVars, logVars, stepVars>>

\* the query delivers its first page
QueryLoaded ==
    /\ ~query.loaded
    /\ LET r == [query EXCEPT !.loaded = TRUE, !.pages = 1]
       IN query' = r /\ effects' = effects \cup EffectsDue(query, r)
    /\ UNCHANGED <<pc, pipeline, pipelineRun, taskRuns, taskList, model, text, ret,
                   cacheVars, logVars, stepVars, hasTriggeredFetch>>

\* the fetch in flight delivers the next page
NextPageArrives ==
    /\ query.isFetchingNextPage
    /\ LET r == [query EXCEPT !.isFetchingNextPage = FALSE, !.pages = @ + 1]
       IN query' = r /\ effects' = effects \cup EffectsDue(query, r)
    /\ UNCHANGED <<pc, pipeline, pipelineRun, taskRuns, taskList, model, text, ret,
                   cacheVars, logVars, stepVars, hasTriggeredFetch>>

\* the view is given another pipeline run: a new query of n pages; the ref of
\* the hook stays
SelectPipelineRun(n) ==
    /\ LET r == [loaded |-> FALSE, pages |-> 0, total |-> n,
                 isFetchingNextPage |-> FALSE]
       IN query' = r /\ effects' = effects \cup EffectsDue(query, r)
    /\ UNCHANGED <<pc, pipeline, pipelineRun, taskRuns, taskList, model, text, ret,
                   cacheVars, logVars, stepVars, hasTriggeredFetch>>

NextPages ==
    \/ RunEffects
    \/ QueryLoaded
    \/ NextPageArrives
    \/ \E n \in 1..MaxPages : SelectPipelineRun(n)

\* effects run after every render and the query answers every request
SpecPages ==
    /\ InitPages
    /\ [][NextPages]_vars
    /\ WF_vars(RunEffects)
    /\ WF_vars(QueryLoaded)
    /\ WF_vars(NextPageArrives)

----------------------------------------------------------------------------
(* Specification of the step status calls *)

MaxSteps == 3

StepX == <<"x">>
StepY == <<"y">>

\* the entry at position i of the step list: its times are 10 * i and 10 * i + 5
StepShapes(i) ==
    {StepEntry(n, "terminated", r, 10 * i, 10 * i + 5) :
         n \in {StepX, StepPrefix \o StepX, StepY}, r \in {"Completed", "Error"}}
    \cup {StepEntry(n, "running", "", 10 * i, 0) :
              n \in {StepX, StepPrefix \o StepX, StepY}}
    \cup {StepEntry(n, "waiting", "", 0, 0) :
              n \in {StepX, StepPrefix \o StepX, StepY}}

RECURSIVE StepListsOfLen(_)
StepListsOfLen(n) ==
    IF n = 0 THEN {<<>>}
    ELSE {Append(l, e) : l \in StepListsOfLen(n - 1), e \in StepShapes(n)}

StepLists == UNION {StepListsOfLen(n) : n \in 0..MaxSteps}

TaskStatuses ==
    {NullTaskStatus}
    \cup {TaskStatus(r, l) : r \in {"", "Running", "TestFailed"}, l \in StepLists}

InitStep ==
    /\ pc = "start"
    /\ pipeline = NullPipeline
    /\ pipelineRun = NoPipelineRun
    /\ taskRuns = TaskRuns(<<>>)
    /\ text = <<>>
    /\ ret = <<>>
    /\ taskList = <<>>
    /\ model = <<>>
    /\ matrixDetectionCache = <<>>
    /\ detections = 0
    /\ now = 0
    /\ query = [loaded |-> FALSE, pages |-> 0, total |-> 0, isFetchingNextPage |-> FALSE]
    /\ hasTriggeredFetch = FALSE
    /\ effects = {}
    /\ NoLogs
    /\ \E st \in TaskStatuses, final \in BOOLEAN :
           stepCall = [stepName |-> StepX, status |-> st, isFinalStep |-> final]

CreateStepStatus ==
    /\ pc = "start"
    /\ ret' = <<createStepStatus(stepCall.stepName, stepCall.status, stepCall.isFinalStep)>>
    /\ pc' = "stepped"
    /\ UNCHANGED <<pipeline, pipelineRun, taskRuns, taskList, model, text, stepCall>>
    /\ UNCHANGED <<cacheVars, hookVars, logVars>>

NextStep == CreateStepStatus

SpecStep == InitStep /\ [][NextStep]_vars

----------------------------------------------------------------------------
(* Specification of the log selection: a run is selected in the nav, the    *)
(* page address is written, and a component constructed on that address     *)
(* derives its active item.                                                 *)

MaxLogRuns == 3

\* the runs of task a (some named with an index, from 0 or from 1, one not)
\* and of task b
LogRuns ==
    {TaskRun(<<"a", "-", "0">>, TaskA, Undef, <<>>, <<>>),
     TaskRun(<<"a", "-", "1">>, TaskA, Undef, <<>>, <<>>),
     TaskRun(<<"a", "-", "2">>, TaskA, Undef, <<>>, <<>>),
     TaskRun(<<"a", "-", "x">>, TaskA, Undef, <<>>, <<>>),
     TaskRun(<<"b">>, TaskB, Undef, <<>>, <<>>),
     TaskRun(<<"b", "-", "7">>, TaskB, Undef, <<>>, <<>>)}

\* a list as render leaves it: without repetition, the runs of a before the
\* runs of b, the runs of one task in any order
RECURSIVE LogRunListsOfLen(_)
LogRunListsOfLen(n) ==
    IF n = 0 THEN {<<>>}
    ELSE {Append(l, r) : l \in LogRunListsOfLen(n - 1), r \in LogRuns}

RenderedList(l) ==
    /\ \A i, j \in 1..Len(l) : i < j => l[i] # l[j]
    /\ \A i, j \in 1..Len(l) : i < j => ~(l[i].label = TaskB /\ l[j].label = TaskA)

LogRunLists ==
    {l \in UNION {LogRunListsOfLen(n) : n \in 1..MaxLogRuns} : RenderedList(l)}

InitLogs ==
    /\ pc = "start"
    /\ pipeline = Pipeline(<<Task(TaskA, <<>>, <<>>, <<>>), Task(TaskB, <<>>, <<>>, <<>>)>>)
    /\ pipelineRun = PipelineRunNoRefs
    /\ \E l \in LogRunLists : taskRuns = TaskRuns(l)
    /\ text = <<>>
    /\ ret = <<>>
    /\ taskList = <<>>
    /\ model = <<>>
    /\ NoCacheNoHook

\* a nav item is selected
OnNavSelect(taskRunName) ==
    /\ pc \in {"start", "mounted"}
    /\ \E i \in 1..Len(taskRuns.items) : taskRuns.items[i].name = taskRunName
    /\ location' = onNavSelect(taskRuns.items, taskRunName)
    /\ activeItem' = taskRunName
    /\ navUntouched' = FALSE
    /\ ret' = <<taskRunName>>
    /\ pc' = "selected"
    /\ UNCHANGED <<pipeline, pipelineRun, taskRuns, taskList, model, text>>
    /\ UNCHANGED <<cacheVars, hookVars, stepVars>>

\* the page is opened at the address: the component is constructed and mounted
ComponentDidMount ==
    /\ pc = "selected"
    /\ activeItem' = componentDidMount(taskRuns.items, location)
    /\ navUntouched' = TRUE
    /\ pc' = "mounted"
    /\ UNCHANGED <<pipeline, pipelineRun, taskRuns, taskList, model, text, ret, location>>
    /\ UNCHANGED <<cacheVars, hookVars, stepVars>>

\* the same with the second variant of the component
UpdateActiveItemFromProps ==
    /\ pc = "selected"
    /\ activeItem' = updateActiveItemFromProps(taskRuns.items, pipeline.tasks,
                                               location, <<>>)
    /\ navUntouched' = TRUE
    /\ pc' = "mounted"
    /\ UNCHANGED <<pipeline, pipelineRun, taskRuns, taskList, model, text, ret, location>>
    /\ UNCHANGED <<cacheVars, hookVars, stepVars>>

NextLogs ==
    \/ \E i \in 1..Len(taskRuns.items) : OnNavSelect(taskRuns.items[i].name)
    \/ ComponentDidMount
    \/ UpdateActiveItemFromProps

SpecLogs == InitLogs /\ [][NextLogs]_vars

----------------------------------------------------------------------------
(* Claims *)

\* C1: after a call of appendStatus no two records of the returned list have
\* the same name.
C1_NamesUnique ==
    pc = "listed" =>
        \A i, j \in 1..Len(taskList) : i # j => taskList[i].name # taskList[j].name

\* the run records appendStatus groups under the declared task name
RunCount(name) == Len(RunsOfTask(taskRuns.items, name))

DeclaredNames == {pipeline.tasks[i].name : i \in 1..Len(pipeline.tasks)}

\* C2: when the pipeline-run has a status and every declared task has exactly
\* one run record, appendStatus returns one record per declared task, each with
\* the declared name and without isMatrix, originalName and matrixDisplayName.
C2_SingleRunsNotMatrix ==
    (/\ pc = "listed"
     /\ pipelineRun.hasStatus
     /\ \A n \in DeclaredNames : RunCount(n) = 1)
    => /\ Len(taskList) = Len(pipeline.tasks)
       /\ \A i \in 1..Len(taskList) :
              /\ taskList[i].name = pipeline.tasks[i].name
              /\ ~taskList[i].isMatrix
              /\ taskList[i].originalName = Undef
              /\ taskList[i].matrixDisplayName = Undef

SuffixChar(c) == IsAlnum(c) \/ c = "-"

WellFormedSuffix(x) ==
    /\ \A i \in 1..Len(x) : SuffixChar(x[i])
    /\ x # <<>> => (x[1] # "-" /\ x[Len(x)] # "-")
    /\ \A i \in 1..(Len(x) - 1) : ~(x[i] = "-" /\ x[i + 1] = "-")

\* C3: for every declared task with k > 1 run records (the pipeline-run has a
\* status) appendStatus returns exactly k records for it, each with isMatrix,
\* originalName the declared name, and name = originalName + '-' + suffix where
\* the suffix has only characters of [a-zA-Z0-9-] and no leading, trailing or
\* doubled '-'.
C3_MatrixExpansion ==
    (pc = "listed" /\ pipelineRun.hasStatus) =>
        \A n \in DeclaredNames :
            RunCount(n) > 1 =>
                LET recs == SelectSeq(taskList, LAMBDA t : t.originalName = n)
                IN /\ Len(recs) = RunCount(n)
                   /\ \A i \in 1..Len(recs) :
                          /\ recs[i].isMatrix
                          /\ Len(recs[i].name) > Len(n)
                          /\ SubSeq(recs[i].name, 1, Len(n) + 1) = n \o <<"-">>
                          /\ WellFormedSuffix(SubSeq(recs[i].name, Len(n) + 2,
                                                     Len(recs[i].name)))

\* a matrix task was expanded, and one of its suffixes came from a label with
\* several non-alphanumeric characters in a row
C3_Expanded ==
    /\ pc = "listed"
    /\ pipelineRun.hasStatus
    /\ RunCount(TaskA) > 1
    /\ \E i \in 1..Len(taskList) :
           /\ taskList[i].originalName = TaskA
           /\ taskList[i].name = TaskA \o <<"-", "x", "-", "y">>

\* the declared task a record of the task list was made from
DeclaredTaskOf(entry) ==
    LET n == IF ~Falsy(entry.originalName) THEN entry.originalName ELSE entry.name
    IN CHOOSE i \in 1..Len(pipeline.tasks) : pipeline.tasks[i].name = n

\* C4: the label of the graph node built for a run record of a declared task
\* equals the displayString getTaskDisplayInfo returns for that task and run
\* record, given the same pipeline-run and task-run list.
C4_SameLabel ==
    (pc = "shown" /\ model.kind = "model") =>
        \A k \in 1..Len(model.nodes) :
            LET entry == model.taskList[model.nodes[k].task]
            IN (entry.run = ret[1].run /\ DeclaredTaskOf(entry) = ret[1].task)
               => model.nodes[k].label = ret[1].info.displayString

NodeIds(nodes) == {nodes[i].id : i \in 1..Len(nodes)}

\* C5: in the model getPipelineRunDataModel returns every id in every node's
\* runAfterTasks is the id of a node of that model.
C5_NoDanglingRefs ==
    (pc = "built" /\ model.kind = "model") =>
        \A k \in 1..Len(model.nodes) :
            \A d \in Range(model.nodes[k].runAfterTasks) : d \in NodeIds(model.nodes)

\* a model was built for a pipeline with a reference to the undeclared task,
\* which the node had when it was first built
C5_DanglingDropped ==
    /\ pc = "built"
    /\ model.kind = "model"
    /\ \E k \in 1..Len(model.mapped) : TaskZ \in Range(model.mapped[k].runAfterTasks)

\* the names, in task-list order, of the records whose originalName is d
RecordsOfOriginal(list, d) ==
    LET at == SelectSeq([i \in 1..Len(list) |-> i], LAMBDA i : list[i].originalName = d)
    IN [j \in 1..Len(at) |-> list[at[j]].name]

\* C6: when a node's dependency list is built each raw dependency name d is
\* replaced by the names of all records whose originalName is d, in task-list
\* order, and stays as it is only when no record has originalName d.
C6_DepsExpanded ==
    (pc = "built" /\ model.kind = "model") =>
        \A k \in 1..Len(model.mapped) :
            LET list == model.taskList
                raw == RawDeps(list[k])
            IN model.mapped[k].runAfterTasks =
                   Flatten([i \in 1..Len(raw) |->
                               IF RecordsOfOriginal(list, raw[i]) # <<>>
                               THEN RecordsOfOriginal(list, raw[i])
                               ELSE <<raw[i]>>])

\* a node depends on a task that was expanded into several instances
C6_FanOut ==
    /\ pc = "built"
    /\ model.kind = "model"
    /\ \E k \in 1..Len(model.mapped) :
           \E d \in Range(RawDeps(model.taskList[k])) :
               Len(RecordsOfOriginal(model.taskList, d)) > 1

\* the ids reachable from id o through runAfterTasks in at most n steps
RECURSIVE ReachableWithin(_, _, _)
ReachableWithin(nodes, from, n) ==
    IF n = 0 THEN from
    ELSE LET next == UNION {Range(nodes[i].runAfterTasks) :
                               i \in {j \in 1..Len(nodes) : nodes[j].id \in from}}
         IN ReachableWithin(nodes, from \cup next, n - 1)

DepsOfId(nodes, o) ==
    UNION {Range(nodes[i].runAfterTasks) : i \in {j \in 1..Len(nodes) : nodes[j].id = o}}

ReachableFrom(nodes, o) == ReachableWithin(nodes, DepsOfId(nodes, o), Len(nodes))

\* C7: after edge pruning no node keeps a dependency d when another of its
\* dependencies o depends on d directly or transitively.
C7_NoRedundantEdge ==
    (pc = "built" /\ model.kind = "model") =>
        \A k \in 1..Len(model.nodes) :
            \A d, o \in Range(model.nodes[k].runAfterTasks) :
                d # o => d \notin ReachableFrom(model.nodes, o)

\* C8 as stated: for every node c and every id p in c.runAfterTasks,
\* level(c) > level(p).
C8_ChildAboveParent ==
    (pc = "built" /\ model.kind = "model") =>
        \A c, p \in 1..Len(model.nodes) :
            model.nodes[p].id \in Range(model.nodes[c].runAfterTasks)
            => model.nodes[c].level > model.nodes[p].level

\* C8: in the built model, for every node c and every id p in c.runAfterTasks,
\* level(p) > level(c): levels count the distance from the tasks nothing
\* depends on, which have level 0.
C8_ParentAboveChild ==
    (pc = "built" /\ model.kind = "model") =>
        \A c, p \in 1..Len(model.nodes) :
            model.nodes[p].id \in Range(model.nodes[c].runAfterTasks)
            => model.nodes[p].level > model.nodes[c].level

\* a model was built in which a chain of three dependencies gives level 3
C8_ChainLevelled ==
    /\ pc = "built"
    /\ model.kind = "model"
    /\ \E c, p \in 1..Len(model.nodes) :
           /\ model.nodes[p].id \in Range(model.nodes[c].runAfterTasks)
           /\ model.nodes[p].level = 3

\* C11: the label createMatrixInstanceLabel returns contains none of the
\* characters '<', '>', '&' and has at most 100 characters, whichever path
\* produced it.
C11_LabelSanitized ==
    pc = "labelled" =>
        /\ \A i \in 1..Len(ret[1].label) : ret[1].label[i] \notin {"<", ">", "&"}
        /\ Len(ret[1].label) <= MaxDisplayLen

\* the display name of the child reference named like the labelled run record
\* (Undef when there is none)
MatchingDisplayName ==
    LET refs == SelectSeq(pipelineRun.childReferences,
                          LAMBDA r : r.name = taskRuns.items[1].name)
    IN IF refs = <<>> THEN Undef ELSE refs[1].displayName

\* C12 as stated: with a child reference of the run record's name and a
\* non-empty displayName the label is sanitizeDisplayName(displayName).
C12_ChildRefLabel ==
    (pc = "labelled" /\ ~Falsy(MatchingDisplayName))
    => ret[1].label = sanitizeDisplayName(MatchingDisplayName)

\* C12: with a child reference of the run record's name whose displayName is
\* non-empty after sanitizeDisplayName, the label is that sanitized name,
\* whatever the declared matrix parameters and the position are; '<s>a</s>B'
\* gives 'aB'.
C12_SanitizedChildRefLabel ==
    (pc = "labelled" /\ ~Falsy(MatchingDisplayName)
                     /\ sanitizeDisplayName(MatchingDisplayName) # <<>>)
    => /\ ret[1].label = sanitizeDisplayName(MatchingDisplayName)
       /\ MatchingDisplayName = ScriptBuild => ret[1].label = <<"a", "B">>

\* the label of a run record with display name '<s>a</s>B' was asked for, with
\* declared matrix parameters and at a position beyond the first
C12_MarkupStripped ==
    /\ pc = "labelled"
    /\ MatchingDisplayName = ScriptBuild
    /\ Len(pipeline.tasks[1].matrix) > 1
    /\ ret[1].index > 0

\* the values the labelled run record carries for the declared matrix parameters
LiveMatrixValues ==
    LET names == {pipeline.tasks[1].matrix[i].name : i \in 1..Len(pipeline.tasks[1].matrix)}
        live == SelectSeq(taskRuns.items[1].params, LAMBDA q : q.name \in names)
    IN [i \in 1..Len(live) |-> live[i].value]

\* C21: for a task with exactly one declared matrix parameter, no
\* child-reference display name and a run record that holds a value for that
\* parameter, createMatrixInstanceLabel returns that live value, also when it
\* differs from the declared value at the instance's position.
C21_LiveValueWins ==
    (/\ pc = "labelled"
     /\ Len(pipeline.tasks[1].matrix) = 1
     /\ MatchingDisplayName = Undef
     /\ LiveMatrixValues # <<>>)
    => ret[1].label = LiveMatrixValues[1]

\* the positions of the nodes that list node k in their runAfterTasks
Listers(k) ==
    {j \in 1..Len(model.nodes) :
         model.nodes[k].id \in Range(model.nodes[j].runAfterTasks)}

\* C22: in the built model a task node that no node lists in its runAfterTasks
\* has level 0, and every other task node's level is 1 + the maximum level
\* among the nodes that list it.
C22_LevelFromListers ==
    (pc = "built" /\ model.kind = "model") =>
        \A k \in 1..Len(model.nodes) :
            IF Listers(k) = {} THEN model.nodes[k].level = 0
            ELSE /\ \E j \in Listers(k) :
                        model.nodes[k].level = 1 + model.nodes[j].level
                 /\ \A j \in Listers(k) :
                        model.nodes[k].level >= 1 + model.nodes[j].level

\* a model was built in which a node is listed by two nodes of different levels
C22_TwoListers ==
    /\ pc = "built"
    /\ model.kind = "model"
    /\ \E k \in 1..Len(model.nodes) :
           \E i, j \in Listers(k) :
               /\ model.nodes[i].level > model.nodes[j].level
               /\ model.nodes[k].level = 1 + model.nodes[i].level

\* C23: appendStatus lists the declared tasks in declaration order (every task
\* has a record); the records of an expanded matrix task are consecutive, at
\* the position of their declared task, one per run record of the task and in
\* the order of the run records in the task-run list.
C23_DeclarationOrder ==
    pc = "listed" =>
        /\ \A t \in 1..Len(pipeline.tasks) :
               \E i \in 1..Len(taskList) : DeclaredTaskOf(taskList[i]) = t
        /\ \A i, j \in 1..Len(taskList) :
               i < j =>
                   /\ DeclaredTaskOf(taskList[i]) <= DeclaredTaskOf(taskList[j])
                   /\ DeclaredTaskOf(taskList[i]) = DeclaredTaskOf(taskList[j])
                      => taskList[i].run < taskList[j].run
        /\ \A i \in 1..Len(taskList) :
               taskList[i].isMatrix =>
                   LET n == pipeline.tasks[DeclaredTaskOf(taskList[i])].name
                   IN /\ taskList[i].run \in Range(RunsOfTask(taskRuns.items, n))
                      /\ Cardinality({j \in 1..Len(taskList) :
                                         DeclaredTaskOf(taskList[j]) = DeclaredTaskOf(taskList[i])})
                         = RunCount(n)

\* the first declared task was expanded into its first and third run record,
\* with a run record of the second task between them in the input list
C23_Interleaved ==
    /\ pc = "listed"
    /\ Len(taskList) = 3
    /\ taskList[1].isMatrix /\ taskList[1].run = 1
    /\ taskList[2].isMatrix /\ taskList[2].run = 3
    /\ taskList[3].run = 2

\* C26: in the built model every node's runAfterTasks contains each
\* dependency id at most once, also when the same upstream task is named in
\* runAfter and referenced again in parameter values.  Stated for the models
\* whose task records have distinct names: there a repeated id is a repeated
\* dependency, not two records that share a name.
C26_NoDuplicateDeps ==
    (/\ pc = "built"
     /\ model.kind = "model"
     /\ \A i, j \in 1..Len(model.taskList) :
            i # j => model.taskList[i].name # model.taskList[j].name) =>
        \A k \in 1..Len(model.nodes) :
            \A i, j \in 1..Len(model.nodes[k].runAfterTasks) :
                i # j => model.nodes[k].runAfterTasks[i] # model.nodes[k].runAfterTasks[j]

\* no node reaches its own id through the dependency lists
Acyclic(nodes) ==
    \A k \in 1..Len(nodes) : nodes[k].id \notin ReachableFrom(nodes, nodes[k].id)

\* C27: for an acyclic pipeline edge pruning preserves reachability: every
\* existing node d in node n's expanded dependency list before pruning is
\* still reachable from n through runAfterTasks after pruning and the
\* dangling-reference guard.
C27_ReachabilityKept ==
    (pc = "built" /\ model.kind = "model" /\ Acyclic(model.mapped)) =>
        \A n \in 1..Len(model.nodes) :
            \A d \in Range(model.mapped[n].runAfterTasks) \cap NodeIds(model.nodes) :
                d \in ReachableWithin(model.nodes, Range(model.nodes[n].runAfterTasks),
                                      Len(model.nodes))

\* a model was built in which pruning took a dependency on an existing node
\* out of the list of a node that has another dependency left
C27_EdgePruned ==
    /\ pc = "built"
    /\ model.kind = "model"
    /\ Acyclic(model.mapped)
    /\ \E n \in 1..Len(model.nodes) :
           \E d \in Range(model.mapped[n].runAfterTasks) \cap NodeIds(model.nodes) :
               /\ d \notin Range(model.nodes[n].runAfterTasks)
               /\ model.nodes[n].runAfterTasks # <<>>

\* len_1 * ... * len_(j-1) of the declared value lists
RECURSIVE ProductBefore(_, _)
ProductBefore(matrix, j) ==
    IF j <= 1 THEN 1
    ELSE Len(ParamValues(matrix[j - 1])) * ProductBefore(matrix, j - 1)

\* values_j[(i div (len_1 * ... * len_(j-1))) mod len_j]
Component(matrix, j, i) ==
    LET values == ParamValues(matrix[j])
    IN values[((i \div ProductBefore(matrix, j)) % Len(values)) + 1]

\* C28: with two or more declared matrix parameters, no child-reference display
\* name, no live values of them on the run record and a position i below the
\* product of the declared list lengths, the label is the components
\* values_j[(i div (len_1 * ... * len_(j-1))) mod len_j] joined by ', ' in
\* declaration order when there are fewer than 4 of them, and 'Instance '
\* followed by i + 1 when there are 4 or more.
C28_MixedRadixLabel ==
    LET matrix == pipeline.tasks[1].matrix
        n == Len(matrix)
        i == ret[1].index
    IN (/\ pc = "labelled"
        /\ n >= 2
        /\ MatchingDisplayName = Undef
        /\ LiveMatrixValues = <<>>
        /\ i < ProductBefore(matrix, n + 1))
       => ret[1].label =
              IF n < 4
              THEN Join([j \in 1..n |-> Component(matrix, j, i)], <<",", " ">>)
              ELSE <<"I", "n", "s", "t", "a", "n", "c", "e", " ">> \o NumToStr(i + 1)

\* the label of the third of four combinations of two parameters was asked
\* for: the first value of the first list with the second of the second
C28_ThirdCombination ==
    /\ pc = "labelled"
    /\ Len(pipeline.tasks[1].matrix) = 2
    /\ MatchingDisplayName = Undef
    /\ LiveMatrixValues = <<>>
    /\ ret[1].index = 2
    /\ ret[1].label = <<"x", ",", " ", "y">>

\* the position of the run-time entry of the step: the first entry whose
\* name is the declared name, with or without the prefix 'step-' (0: none)
EntryOfStep ==
    LET steps == stepCall.status.steps
        named == {i \in 1..Len(steps) :
                     steps[i].name \in {stepCall.stepName,
                                        <<"s", "t", "e", "p", "-">> \o stepCall.stepName}}
    IN IF named = {} THEN 0 ELSE CHOOSE i \in named : \A j \in named : i <= j

\* C29: for a run whose status has a reason, createStepStatus reports a step
\* whose run-time entry is running as Running exactly when the entry is the
\* first of the run's step list or the entry immediately before it has
\* terminated, and as Pending otherwise; the entry of a declared step is the
\* one named like it, or like it with the prefix 'step-'.
C29_RunningStep ==
    (/\ pc = "stepped"
     /\ ~stepCall.status.isNull
     /\ stepCall.status.reason # ""
     /\ EntryOfStep > 0
     /\ stepCall.status.steps[EntryOfStep].state = "running")
    => ret[1].status =
           IF \/ EntryOfStep = 1
              \/ stepCall.status.steps[EntryOfStep - 1].state = "terminated"
           THEN "Running" ELSE "Pending"

\* the status of a step was asked for whose entry, named with the prefix, is
\* the third of the list and running, after a terminated and a running entry
C29_ThirdEntryRunning ==
    /\ pc = "stepped"
    /\ stepCall.status.reason # ""
    /\ EntryOfStep = 3
    /\ stepCall.status.steps[3].name = <<"s", "t", "e", "p", "-", "x">>
    /\ stepCall.status.steps[3].state = "running"
    /\ stepCall.status.steps[2].state = "running"
    /\ stepCall.status.steps[1].state = "terminated"
    /\ ret[1].status = "Pending"

\* C30: the log selection round-trips through the page address: after a run
\* with a pipeline-task label was selected in the nav and a component was
\* mounted on the task name and index written for it, that run is the active
\* item, also for matrix instances and run names that end in '-<digits>'.
C30_SelectionRoundTrip ==
    pc = "mounted" => activeItem = ret[1]

\* C13: getPipelineRunDataModel does not throw for a pipeline-run that carries
\* a pipeline spec, whatever the task-run list is (null, empty, records without
\* labels): the task-run lookups raise no TypeError.
C13_NoThrowOnTaskRuns ==
    (pc = "built" /\ pipelineRun.hasStatus /\ pipelineRun.hasSpec)
    => ~(model.kind = "threw" /\ model.why = "TypeError")

\* C14: the memoization cache never holds more than 101 entries: an insert
\* that finds more than 100 entries first deletes the 50 oldest-inserted keys,
\* and the key of a call is in the cache when the call returns.
C14_CacheBounded ==
    /\ Len(matrixDetectionCache) <= CacheLimit + 1
    /\ pc = "detected" => ret[1].key \in CacheKeys(matrixDetectionCache)
    /\ (pc = "detected" /\ ~ret[1].hit)
       => matrixDetectionCache[Len(matrixDetectionCache)].key = ret[1].key

\* an insert found 101 entries and deleted the 50 oldest
C14_Evicted ==
    /\ pc = "detected"
    /\ ~ret[1].hit
    /\ Len(matrixDetectionCache) = CacheLimit + 2 - EvictCount
    /\ matrixDetectionCache[1].key = EvictCount + 1

\* the cache holds the object under the key
StoredUnder(cache, key, value) ==
    \E i \in 1..Len(cache) : cache[i].key = key /\ cache[i].value = value

\* C15: a call with an explicit key that is still in the cache from an
\* earlier call returns the very result object of that call and computes
\* nothing; a call leaves its result under its key, and an entry keeps its
\* object as long as it is in the cache.
C15_SameObject ==
    [][/\ (pc' = "detected" /\ ret'[1].key \in CacheKeys(matrixDetectionCache))
          => /\ StoredUnder(matrixDetectionCache, ret'[1].key, ret'[1].value)
             /\ detections' = detections
       /\ pc' = "detected"
          => StoredUnder(matrixDetectionCache', ret'[1].key, ret'[1].value)
       /\ LET before == {matrixDetectionCache[i] : i \in 1..Len(matrixDetectionCache)}
               keysBefore == CacheKeys(matrixDetectionCache)
           IN \A i \in 1..Len(matrixDetectionCache') :
                  matrixDetectionCache'[i].key \in keysBefore
                  => matrixDetectionCache'[i] \in before]_vars

\* a call found its key, stored by an earlier call that is not the last insert
C15_Hit ==
    /\ pc = "detected"
    /\ ret[1].hit
    /\ Len(matrixDetectionCache) > 1
    /\ ret[1].key = matrixDetectionCache[1].key

\* C24: every call detectMatrixTasksWithCaching(taskRuns, key) returns a map
\* equal to detectMatrixTasks(taskRuns) for the list of that very call, after
\* any sequence of earlier calls, also calls with the same key and another list.
C24_SameAsDetector ==
    pc = "detected" => ret[1].value.map = detectMatrixTasks(taskRuns)

\* C25: two calls of detectMatrixTasksWithCaching without a cache key never
\* return the same result object: each such call computes a fresh result, also
\* when both pass lists of equal length and the clock does not advance.
C25_FreshObject ==
    pc = "detected" => /\ ~ret[1].hit
                       /\ ret[1].value.obj = detections

\* C18: page loading in useTaskRuns is live: whenever the query is loaded and
\* reports hasNextPage with no fetch in flight, getNextPage is eventually
\* called (a fetch is in flight), unless the query itself is replaced.
C18_NextPageRequested ==
    (query.loaded /\ hasNextPage(query) /\ ~query.isFetchingNextPage)
    ~> (query.isFetchingNextPage \/ ~query.loaded \/ ~hasNextPage(query))

\* the placeholders appendStatus returns when the pipeline run has no status:
\* one record per declared task, with the declared name and the given reason
Placeholders(reason) ==
    /\ Len(taskList) = Len(pipeline.tasks)
    /\ \A i \in 1..Len(taskList) :
           /\ taskList[i].name = pipeline.tasks[i].name
           /\ taskList[i].reason = reason
           /\ taskList[i].run = 0
           /\ ~taskList[i].isMatrix

\* C19, as stated: when the pipeline-run object has no status, appendStatus
\* returns exactly one placeholder record per declared task, with the declared
\* name and status reason Idle.
C19_IdlePlaceholders ==
    (pc = "listed" /\ ~pipelineRun.hasStatus) => Placeholders("Idle")

\* C19, amended: when the pipeline-run object has no status, appendStatus
\* returns exactly one placeholder record per declared task, with the declared
\* name and status reason Pending, whatever run records there are.
C19_PendingPlaceholders ==
    (pc = "listed" /\ ~pipelineRun.hasStatus) => Placeholders("Pending")

\* appendStatus was called without a pipeline-run status and with several run
\* records of the first declared task
C19_NoStatusWithRuns ==
    /\ pc = "listed"
    /\ ~pipelineRun.hasStatus
    /\ RunCount(TaskA) > 1
    /\ Len(taskList) = 2

\* the logical task names the run records resolve to
ResolvedNames ==
    {LogicalName(taskRuns.items[i]) : i \in 1..Len(taskRuns.items)} \ {Undef}

\* C20: detectMatrixTasks reports, for every logical task name (the
\* pipeline-task label, else the pipelineTaskName field of the record),
\* isMatrix = true exactly when more than one record resolves to the name; a
\* task with exactly one record is not a matrix whatever its annotations, and
\* records with no resolvable name are not counted.
C20_MatrixIffSeveralRuns ==
    pc = "grouped" =>
        /\ DOMAIN ret[1] = ResolvedNames
        /\ \A n \in ResolvedNames :
               /\ n \in DOMAIN ret[1]
               /\ ret[1][n].instanceCount = RunCount(n)
               /\ ret[1][n].isMatrix <=> (RunCount(n) > 1)

\* C16: for every task node of the built model data.taskRun is the run record
\* from which the node's status was merged, so two instances of one matrix
\* task never carry the same run record.
C16_NodeCarriesOwnRun ==
    (pc = "built" /\ model.kind = "model") =>
        /\ \A k \in 1..Len(model.nodes) :
               model.nodes[k].taskRun = model.taskList[model.nodes[k].task].run
        /\ \A j, k \in 1..Len(model.nodes) :
               LET tj == model.taskList[model.nodes[j].task]
                   tk == model.taskList[model.nodes[k].task]
               IN (j # k /\ tj.isMatrix /\ tk.isMatrix
                        /\ tj.originalName = tk.originalName)
                  => model.nodes[j].taskRun # model.nodes[k].taskRun

\* C17: getPipelineRunDataModel returns a model for every pipeline task list,
\* also when a task references itself or the references form a cycle: the
\* recursions of level assignment and edge pruning come to an end.
C17_ReturnsModel ==
    (pc = "built" /\ pipelineRun.hasStatus /\ pipelineRun.hasSpec)
    => ~(model.kind = "threw" /\ model.why = "RangeError")

\* C9: sanitizeDisplayName is idempotent: sanitizing a sanitized display name
\* gives it back unchanged, for every input string.
C9_Idempotent == pc = "twice" => ret[2] = ret[1]

\* C10: createMatrixInstanceLabel returns a non-empty string for every task
\* definition, run record, pipeline-run and position >= 0.
C10_LabelNonEmpty == pc = "labelled" => ret[1].label # <<>>

====
